---- MODULE Spec2Model ----
(***************************************************************************)
(* Model of scripts/dsn.py: the keyword-path statistics script.            *)
(*                                                                         *)
(* A text is a sequence of lexical units.  Every special character (a      *)
(* paren, a blank, a quote character, a backslash, a dot) is a unit by     *)
(* itself; a run of letters is one unit ("pcb").  A Python string is the   *)
(* sequence of its units, so a token is a sequence of units and so is an   *)
(* accumulator key ('.'.join(path)).                                       *)
(***************************************************************************)
EXTENDS Integers, Sequences, FiniteSets, TLC

\* ------------------------------------------------------------------ bounds
MaxFiles == 2
MaxLen == 3
MaxLexLen == 5
MaxPieces == 3

\* ------------------------------------------------------- lexical alphabet
LP == "("
RP == ")"
SP == " "
DQ == "\""
SQ == "'"
DOLLAR == "$"
BSL == "\\"

Whitespace == {SP, "\n", "\t"}
Separators == {LP, RP} \cup Whitespace

\* keywords: the members of the table that the model's texts can spell
keywords == {<<"pcb">>, <<"net">>}

\* str.lower() on one unit
LowerUnit(u) ==
  CASE u = "PCB" -> "pcb"
    [] u = "NET" -> "net"
    [] u = "STRING_QUOTE" -> "string_quote"
    [] OTHER -> u

lower(txt) == [i \in 1..Len(txt) |-> LowerUnit(txt[i])]

\* pat in txt
Contains(txt, pat) ==
  \E i \in 1..(Len(txt) - Len(pat) + 1) : SubSeq(txt, i, i + Len(pat) - 1) = pat

\* txt.replace(pat, ''): leftmost non-overlapping occurrences are removed
RECURSIVE replace(_, _)
replace(txt, pat) ==
  IF Len(txt) < Len(pat) THEN txt
  ELSE IF SubSeq(txt, 1, Len(pat)) = pat
       THEN replace(SubSeq(txt, Len(pat) + 1, Len(txt)), pat)
       ELSE <<Head(txt)>> \o replace(Tail(txt), pat)

Marker(q) == <<LP, "string_quote", SP, q, RP>>

\* the three tests in the opposite order: the double quote overrides
quote_reversed(txt) ==
  LET q1 == IF Contains(txt, Marker(DOLLAR)) THEN DOLLAR ELSE DQ
      q2 == IF Contains(txt, Marker(SQ)) THEN SQ ELSE q1
  IN IF Contains(txt, Marker(DQ)) THEN DQ ELSE q2

\* lines 122-128: the active quote character of a file
quote(txt) ==
  LET q1 == IF Contains(txt, Marker(DQ)) THEN DQ ELSE DQ
      q2 == IF Contains(txt, Marker(SQ)) THEN SQ ELSE q1
  IN IF Contains(txt, Marker(DOLLAR)) THEN DOLLAR ELSE q2

\* lines 129-133: markers and escaped double quotes removed, then lowercased
Normalize(txt) ==
  lower(replace(replace(replace(replace(txt, Marker(DQ)), Marker(SQ)),
                        Marker(DOLLAR)), <<BSL, DQ>>))

\* index of the first unit equal to q at or after i, 0 when there is none
RECURSIVE FindQuote(_, _, _)
FindQuote(txt, q, i) ==
  IF i > Len(txt) THEN 0
  ELSE IF txt[i] = q THEN i
  ELSE FindQuote(txt, q, i + 1)

\* the quote pass with the region's content copied into the output
RECURSIVE ScanQuotesVerbatim(_, _, _, _)
ScanQuotesVerbatim(txt, q, i, new_data) ==
  IF i > Len(txt) THEN [ok |-> TRUE, text |-> new_data]
  ELSE IF txt[i] = q
       THEN LET j == FindQuote(txt, q, i + 1)
            IN IF j = 0 THEN [ok |-> FALSE, text |-> new_data]
               ELSE ScanQuotesVerbatim(txt, q, j + 1, new_data \o SubSeq(txt, i, j))
       ELSE ScanQuotesVerbatim(txt, q, i + 1, Append(new_data, txt[i]))

\* the quote pass with the inner scan stopping at the end of the text
RECURSIVE ScanQuotesBounded(_, _, _, _)
ScanQuotesBounded(txt, q, i, new_data) ==
  IF i > Len(txt) THEN [ok |-> TRUE, text |-> new_data]
  ELSE IF txt[i] = q
       THEN LET j == FindQuote(txt, q, i + 1)
            IN IF j = 0 THEN [ok |-> TRUE, text |-> new_data \o <<q, q>>]
               ELSE ScanQuotesBounded(txt, q, j + 1, new_data \o <<q, q>>)
       ELSE ScanQuotesBounded(txt, q, i + 1, Append(new_data, txt[i]))

\* the quote pass without the closing quote appended
RECURSIVE ScanQuotesOpenOnly(_, _, _, _)
ScanQuotesOpenOnly(txt, q, i, new_data) ==
  IF i > Len(txt) THEN [ok |-> TRUE, text |-> new_data]
  ELSE IF txt[i] = q
       THEN LET j == FindQuote(txt, q, i + 1)
            IN IF j = 0 THEN [ok |-> FALSE, text |-> new_data]
               ELSE ScanQuotesOpenOnly(txt, q, j + 1, Append(new_data, q))
       ELSE ScanQuotesOpenOnly(txt, q, i + 1, Append(new_data, txt[i]))

\* lines 134-143: quote pass.  At a quote the scan jumps to the next quote
\* (IndexError when there is none) and appends the closing quote only.
RECURSIVE ScanQuotes(_, _, _, _)
ScanQuotes(txt, q, i, new_data) ==
  IF i > Len(txt) THEN [ok |-> TRUE, text |-> new_data]
  ELSE IF txt[i] = q
       THEN LET j == FindQuote(txt, q, i + 1)
            IN IF j = 0 THEN [ok |-> FALSE, text |-> new_data]
               ELSE ScanQuotes(txt, q, j + 1, new_data \o <<q, q>>)
       ELSE ScanQuotes(txt, q, i + 1, Append(new_data, txt[i]))

\* line 144: re.split(r'([()\s])', new_data), separators kept as pieces
RECURSIVE Split(_, _, _)
Split(text, i, cur) ==
  IF i > Len(text) THEN <<cur>>
  ELSE IF text[i] \in Separators
       THEN <<cur, <<text[i]>> >> \o Split(text, i + 1, <<>>)
       ELSE Split(text, i + 1, Append(cur, text[i]))

\* line 145: str.strip() of one piece (a piece holds a blank only when it is
\* a separator piece)
strip(piece) == IF Len(piece) = 1 /\ piece[1] \in Whitespace THEN <<>> ELSE piece

NonEmpty(piece) == piece # <<>>

\* lines 144-146
Tokens(new_data) ==
  LET pieces == Split(new_data, 1, <<>>)
  IN SelectSeq([i \in 1..Len(pieces) |-> strip(pieces[i])], NonEmpty)

\* lines 122-146: the lexer part of process(txt)
Lex(txt) ==
  LET q == quote(txt)
      r == ScanQuotes(Normalize(txt), q, 1, <<>>)
  IN IF r.ok THEN [ok |-> TRUE, tokens |-> Tokens(r.text)]
     ELSE [ok |-> FALSE, tokens |-> <<>>]

\* ------------------------------------------------------------ accumulator
\* line 97: '.'.join(path)
RECURSIVE Join(_)
Join(p) ==
  IF p = <<>> THEN <<>>
  ELSE IF Len(p) = 1 THEN p[1]
  ELSE p[1] \o <<".">> \o Join(Tail(p))

EmptyDict == [k \in {} |-> 0]

\* add_path() storing 1 instead of adding 1
add_path_set(c, p) ==
  LET ct == Join(p)
      c0 == IF ct \in DOMAIN c THEN c ELSE c @@ (ct :> 0)
  IN [c0 EXCEPT ![ct] = 1]

\* lines 95-99: add_path() for the path p
add_path(c, p) ==
  LET ct == Join(p)
      c0 == IF ct \in DOMAIN c THEN c ELSE c @@ (ct :> 0)
  IN [c0 EXCEPT ![ct] = @ + 1]

\* every atom taken for a keyword
valid_keyword_any(t) == TRUE

\* lines 102-103
valid_keyword(t) == t \in keywords

\* ------------------------------------------------------------------ walker
\* One iteration of the while loop (lines 149-163) on tokens toks, with idx = i
\* < len(toks), path p and counts c.  exc names the exception raised, "none"
\* when the iteration completes; an exception leaves path and counts as they
\* were when it was raised.
Step(exc, i, p, c) == [exc |-> exc, idx |-> i, path |-> p, counts |-> c]

\* the group-open step without the assertion of line 152
OpenStepUnasserted(toks, i, p, c) ==
  IF i + 2 > Len(toks) THEN Step("NoNextToken", i + 2, p, c)
  ELSE LET p1 == Append(p, toks[i + 2])
       IN Step("none", i + 2, p1, add_path(c, p1))

\* the group-open step counting only a name of the vocabulary
OpenStepKeywordOnly(toks, i, p, c) ==
  IF i + 2 > Len(toks) THEN Step("NoNextToken", i + 2, p, c)
  ELSE IF toks[i + 2] = <<RP>> THEN Step("EmptyGroup", i + 2, p, c)
  ELSE LET p1 == Append(p, toks[i + 2])
       IN Step("none", i + 2, p1,
               IF valid_keyword(toks[i + 2]) THEN add_path(c, p1) ELSE c)

\* lines 150-154: t == '('
OpenStep(toks, i, p, c) ==
  IF i + 2 > Len(toks) THEN Step("NoNextToken", i + 2, p, c)
  ELSE IF toks[i + 2] = <<RP>> THEN Step("EmptyGroup", i + 2, p, c)
  ELSE LET p1 == Append(p, toks[i + 2])
       IN Step("none", i + 2, p1, add_path(c, p1))

\* the close step popping only a non-empty path
CloseStepGuarded(toks, i, p, c) ==
  IF p = <<>> THEN Step("none", i + 1, p, c)
  ELSE Step("none", i + 1, SubSeq(p, 1, Len(p) - 1), c)

\* lines 155-156: t == ')'
CloseStep(toks, i, p, c) ==
  IF p = <<>> THEN Step("Underflow", i + 1, p, c)
  ELSE Step("none", i + 1, SubSeq(p, 1, Len(p) - 1), c)

\* the atom step without the pop of line 163
AtomStepUnpopped(toks, i, p, c) ==
  IF p = <<>> THEN Step("AtomOutsideGroup", i + 1, p, c)
  ELSE IF valid_keyword(toks[i + 1])
       THEN LET p1 == Append(p, toks[i + 1])
            IN Step("none", i + 1, p1, add_path(c, p1))
       ELSE Step("none", i + 1, p, c)

\* lines 157-163: t is an atom
AtomStep(toks, i, p, c) ==
  IF p = <<>> THEN Step("AtomOutsideGroup", i + 1, p, c)
  ELSE IF valid_keyword(toks[i + 1])
       THEN Step("none", i + 1, p, add_path(c, Append(p, toks[i + 1])))
       ELSE Step("none", i + 1, p, c)

\* line 164: the assertion after the loop
EndStep(i, p, c) ==
  IF p # <<>> THEN Step("Unbalanced", i, p, c) ELSE Step("ok", i, p, c)

\* lines 148-164: the walk from idx = i to its end
RECURSIVE Walk(_, _, _, _)
Walk(toks, i, p, c) ==
  IF i >= Len(toks) THEN EndStep(i, p, c)
  ELSE LET r == IF toks[i + 1] = <<LP>> THEN OpenStep(toks, i, p, c)
                ELSE IF toks[i + 1] = <<RP>> THEN CloseStep(toks, i, p, c)
                ELSE AtomStep(toks, i, p, c)
       IN IF r.exc # "none" THEN r ELSE Walk(toks, r.idx, r.path, r.counts)

\* lines 114-164: process(txt) started with path p and counts c
Process(txt, p, c) ==
  LET l == Lex(txt)
  IN IF l.ok THEN Walk(l.tokens, 0, p, c) ELSE Step("LexFailure", 0, p, c)

\* ------------------------------------------------- reference path counts
\* What a token list contains, read off the parens without the walker: the
\* groups ('(' followed by a name) and the keyword atoms, each with the names
\* of the groups that are open around it.
IsParen(t) == t \in {<<LP>>, <<RP>>}

NumOf(toks, t, from, to) == Cardinality({m \in from..to : toks[m] = <<t>>})

\* the '(' at i is not closed before position j
OpenAt(toks, i, j) ==
  /\ i < j - 1
  /\ toks[i] = <<LP>>
  /\ \A k \in (i + 1)..(j - 1) : NumOf(toks, LP, i + 1, k) >= NumOf(toks, RP, i + 1, k)

\* position j holds the name of a group or a keyword atom
Occurrence(toks, j) ==
  /\ ~IsParen(toks[j])
  /\ \/ j > 1 /\ toks[j - 1] = <<LP>>
     \/ valid_keyword(toks[j])

RECURSIVE NamesOf(_, _, _)
NamesOf(toks, i, j) ==
  IF i >= j THEN <<>>
  ELSE (IF OpenAt(toks, i, j) THEN <<toks[i + 1]>> ELSE <<>>) \o NamesOf(toks, i + 1, j)

NestingPath(toks, j) == Append(NamesOf(toks, 1, j), toks[j])

Occurrences(toks) ==
  LET occ == {j \in 1..Len(toks) : Occurrence(toks, j)}
      keys == {Join(NestingPath(toks, j)) : j \in occ}
  IN [k \in keys |-> Cardinality({j \in occ : Join(NestingPath(toks, j)) = k})]

Merge(a, b) ==
  [k \in DOMAIN a \cup DOMAIN b |->
     (IF k \in DOMAIN a THEN a[k] ELSE 0) + (IF k \in DOMAIN b THEN b[k] ELSE 0)]

\* ------------------------------------------------------------------ report
\* code point of the first character of a unit; no unit is a prefix of
\* another, so comparing unit by unit is comparing the strings
ord(u) ==
  CASE u = "\t" -> 9  [] u = "\n" -> 10 [] u = SP -> 32 [] u = DQ -> 34
    [] u = DOLLAR -> 36 [] u = SQ -> 39 [] u = LP -> 40 [] u = RP -> 41
    [] u = "." -> 46 [] u = "NET" -> 78 [] u = "PCB" -> 80
    [] u = "STRING_QUOTE" -> 83 [] u = BSL -> 92 [] u = "bar" -> 98
    [] u = "foo" -> 102 [] u = "net" -> 110 [] u = "pcb" -> 112
    [] u = "string_quote" -> 115

\* a < b for Python strings
RECURSIVE StrLess(_, _)
StrLess(a, b) ==
  IF b = <<>> THEN FALSE
  ELSE IF a = <<>> THEN TRUE
  ELSE IF ord(Head(a)) # ord(Head(b)) THEN ord(Head(a)) < ord(Head(b))
  ELSE StrLess(Tail(a), Tail(b))

\* the sort with the tuples (v, k) compared as they are: count, then path
RECURSIVE SortByCount(_, _)
SortByCount(c, keys) ==
  IF keys = {} THEN <<>>
  ELSE LET k == CHOOSE m \in keys :
                  \A j \in keys \ {m} :
                    c[m] < c[j] \/ (c[m] = c[j] /\ StrLess(m, j))
       IN <<[path |-> k, count |-> c[k]]>> \o SortByCount(c, keys \ {k})

\* line 109: sort key (x[1], x[0]) of x = (v, k), that is (path, count)
RECURSIVE SortByKey(_, _)
SortByKey(c, keys) ==
  IF keys = {} THEN <<>>
  ELSE LET k == CHOOSE m \in keys : \A j \in keys \ {m} : StrLess(m, j)
       IN <<[path |-> k, count |-> c[k]]>> \o SortByKey(c, keys \ {k})

\* lines 106-111: the lines print_counts() prints
print_counts(c) == SortByKey(c, DOMAIN c)

\* ------------------------------------------------------------------ inputs
\* the active quote character of txt is opened and never closed: the text
\* holds an odd number of them once markers and escapes are removed
Unterminated(txt) ==
  LET norm == Normalize(txt)
  IN  Cardinality({i \in 1..Len(norm) : norm[i] = quote(txt)}) % 2 = 1

Alphabet == {LP, RP, SP, DQ, "pcb"}
Texts == UNION {[1..n -> Alphabet] : n \in 0..MaxLen}

\* what process() can compute from a readable file by line 146
Lexed ==
  {[ok |-> Lex(d).ok, tokens |-> Lex(d).tokens, unterminated |-> Unterminated(d)] :
     d \in Texts}

\* texts of the one-file runs: an optional quote directive, then a body
LexAlphabet == {LP, RP, SP, DQ, SQ, "pcb"}
Directives == {<<>>, Marker(SQ)}
\* (pcb ()())
Scenario2 == <<LP, "pcb", SP, LP, RP, LP, RP, RP>>
\* (pcb (net "foo bar"))
Scenario3 == <<LP, "pcb", SP, LP, "net", SP, DQ, "foo", SP, "bar", DQ, RP, RP>>
\* (pcb (net "foo bar(foo"))
ScenarioQuotedParen ==
  <<LP, "pcb", SP, LP, "net", SP, DQ, "foo", SP, "bar", LP, "foo", DQ, RP, RP>>
\* (net)(net)(pcb)
ScenarioReport ==
  <<LP, "net", RP, LP, "net", RP, LP, "pcb", RP>>
Scenarios == {Scenario2, Scenario3, ScenarioQuotedParen, ScenarioReport}
FileTexts ==
  {dir \o body : dir \in Directives,
                 body \in UNION {[1..n -> LexAlphabet] : n \in 0..MaxLexLen}}
    \cup Scenarios

\* texts of the lexer runs: up to MaxPieces pieces, a piece being a single
\* unit or a whole quote directive, in lower or in upper case
MarkerUpper(q) == <<LP, "STRING_QUOTE", SP, q, RP>>
Pieces ==
  {<<u>> : u \in {LP, RP, SP, DQ, SQ, DOLLAR, BSL, "pcb", "PCB"}}
    \cup {Marker(DQ), Marker(SQ), Marker(DOLLAR), MarkerUpper(SQ)}
RECURSIVE Concat(_)
Concat(ps) == IF ps = <<>> THEN <<>> ELSE Head(ps) \o Concat(Tail(ps))
LexTexts == {Concat(ps) : ps \in UNION {[1..n -> Pieces] : n \in 0..MaxPieces}}

\* ------------------------------------------------------------------- state
VARIABLES
  argc,      \* number of file arguments (len(sys.argv) - 1)
  fi,        \* number of arguments the for loop has finished with
  pc,        \* "loop" | "walk" | "done"
  path,      \* global path (line 91)
  counts,    \* global counts (line 92)
  data,      \* text of the file; kept only by the one-file runs of SpecFile
  tokens,    \* process(): tokens, <<>> outside process()
  idx,       \* process(): idx, 0 outside process()
  failed,    \* arguments reported by 'Failed to process' (line 172), in order
  report,    \* lines printed by print_counts(), <<>> before it runs
  outcomes,  \* how each finished file ended: "ok" or the exception raised
  path0,     \* path when the latest file started
  counts0,   \* counts when the latest file started
  unterminated  \* the text of the latest file has an unterminated quote

vars == <<argc, fi, pc, path, counts, data, tokens, idx, failed, report,
          outcomes, path0, counts0, unterminated>>

Start ==
  /\ fi = 0
  /\ pc = "loop"
  /\ path = <<>>
  /\ counts = EmptyDict
  /\ tokens = <<>>
  /\ idx = 0
  /\ failed = <<>>
  /\ report = <<>>
  /\ outcomes = <<>>
  /\ path0 = <<>>
  /\ counts0 = EmptyDict
  /\ unterminated = FALSE

\* how the latest finished file ended
outcome == IF outcomes = <<>> THEN "none" ELSE outcomes[Len(outcomes)]

Init ==
  /\ argc \in 0..MaxFiles
  /\ data = <<>>
  /\ Start

\* the exception leaving the for loop: the run ends without a report
ExceptUncaught(exc) ==
  /\ failed' = failed
  /\ outcomes' = Append(outcomes, exc)
  /\ fi' = fi + 1
  /\ pc' = "aborted"
  /\ tokens' = <<>>
  /\ idx' = 0

\* lines 171-172: the bare except reports the file and the loop goes on;
\* the globals keep whatever the file did to them
Except(exc) ==
  /\ failed' = Append(failed, fi + 1)
  /\ outcomes' = Append(outcomes, exc)
  /\ fi' = fi + 1
  /\ pc' = "loop"
  /\ tokens' = <<>>
  /\ idx' = 0

\* line 167: the for loop takes the next argument
Begin ==
  /\ pc = "loop"
  /\ fi < argc
  /\ path0' = path
  /\ counts0' = counts

\* line 169: open(v).read() raises
ReadFailure ==
  /\ Begin
  /\ Except("ReadFailure")
  /\ unterminated' = FALSE
  /\ UNCHANGED <<argc, path, counts, data, report>>

\* lines 122-143: the quote pass runs off the end of the text
LexFailure ==
  /\ Begin
  /\ \E f \in Lexed :
       /\ ~f.ok
       /\ unterminated' = f.unterminated
  /\ Except("LexFailure")
  /\ UNCHANGED <<argc, path, counts, data, report>>

\* lines 114-146: the text is read and tokenized, the walk is about to start
LexSuccess ==
  /\ Begin
  /\ \E f \in Lexed :
       /\ f.ok
       /\ tokens' = f.tokens
       /\ unterminated' = f.unterminated
  /\ idx' = 0
  /\ pc' = "walk"
  /\ UNCHANGED <<argc, fi, path, counts, data, failed, report, outcomes>>

\* the effect of one loop iteration or of the final assertion
Apply(r) ==
  IF r.exc = "none"
  THEN /\ idx' = r.idx
       /\ path' = r.path
       /\ counts' = r.counts
       /\ UNCHANGED <<argc, fi, pc, data, tokens, failed, report, outcomes,
                      path0, counts0, unterminated>>
  ELSE IF r.exc = "ok"
  THEN /\ outcomes' = Append(outcomes, "ok")
       /\ fi' = fi + 1
       /\ pc' = "loop"
       /\ tokens' = <<>>
       /\ idx' = 0
       /\ UNCHANGED <<argc, path, counts, data, failed, report, path0,
                      counts0, unterminated>>
  ELSE /\ Except(r.exc)
       /\ UNCHANGED <<argc, path, counts, data, report, path0, counts0,
                      unterminated>>

\* lines 150-154
WalkOpen ==
  /\ pc = "walk"
  /\ idx < Len(tokens)
  /\ tokens[idx + 1] = <<LP>>
  /\ Apply(OpenStep(tokens, idx, path, counts))

\* lines 155-156
WalkClose ==
  /\ pc = "walk"
  /\ idx < Len(tokens)
  /\ tokens[idx + 1] = <<RP>>
  /\ Apply(CloseStep(tokens, idx, path, counts))

\* lines 157-163
WalkAtom ==
  /\ pc = "walk"
  /\ idx < Len(tokens)
  /\ tokens[idx + 1] \notin {<<LP>>, <<RP>>}
  /\ Apply(AtomStep(tokens, idx, path, counts))

\* lines 148 and 164: the tokens are exhausted
WalkEnd ==
  /\ pc = "walk"
  /\ idx >= Len(tokens)
  /\ Apply(EndStep(idx, path, counts))

\* line 173: print_counts() after the loop
Report ==
  /\ pc = "loop"
  /\ fi = argc
  /\ report' = print_counts(counts)
  /\ pc' = "done"
  /\ UNCHANGED <<argc, fi, path, counts, data, tokens, idx, failed,
                 outcomes, path0, counts0, unterminated>>

Next ==
  \/ ReadFailure
  \/ LexFailure
  \/ LexSuccess
  \/ WalkOpen
  \/ WalkClose
  \/ WalkAtom
  \/ WalkEnd
  \/ Report

Spec == Init /\ [][Next]_vars

\* ------------------------------------------------------- complete runs
\* Runs over files taken from a fixed list of texts, one for each way a file
\* can end: (pcb), (pcb pcb), (pcb, ", (), (, ) and pcb.
SampleTexts ==
  {<<LP, "pcb", RP>>, <<LP, "pcb", SP, "pcb", RP>>, <<LP, "pcb">>, <<DQ>>,
   <<LP, RP>>, <<LP>>, <<RP>>, <<"pcb">>}
Sampled ==
  {[ok |-> Lex(d).ok, tokens |-> Lex(d).tokens, unterminated |-> Unterminated(d)] :
     d \in SampleTexts}

\* lines 122-143: the quote pass runs off the end of the text
LexSampleFailure ==
  /\ Begin
  /\ \E f \in Sampled :
       /\ ~f.ok
       /\ unterminated' = f.unterminated
  /\ Except("LexFailure")
  /\ UNCHANGED <<argc, path, counts, data, report>>

\* lines 114-146: the text is read and tokenized
LexSample ==
  /\ Begin
  /\ \E f \in Sampled :
       /\ f.ok
       /\ tokens' = f.tokens
       /\ unterminated' = f.unterminated
  /\ idx' = 0
  /\ pc' = "walk"
  /\ UNCHANGED <<argc, fi, path, counts, data, failed, report, outcomes>>

NextRun ==
  \/ ReadFailure
  \/ LexSampleFailure
  \/ LexSample
  \/ WalkOpen
  \/ WalkClose
  \/ WalkAtom
  \/ WalkEnd
  \/ Report

\* the interpreter keeps running the script: a step that can be taken is
\* taken eventually
FairSpec == Init /\ [][NextRun]_vars /\ WF_vars(NextRun)

\* ------------------------------------------------------- one-file runs
\* The script run on one readable file whose text is data.
InitFile ==
  /\ argc = 1
  /\ data \in FileTexts
  /\ Start

\* lines 122-143 on data: the quote pass runs off the end
LexFileFailure ==
  /\ Begin
  /\ ~Lex(data).ok
  /\ unterminated' = Unterminated(data)
  /\ Except("LexFailure")
  /\ UNCHANGED <<argc, path, counts, data, report>>

\* lines 114-146 on data
LexFile ==
  /\ Begin
  /\ Lex(data).ok
  /\ tokens' = Lex(data).tokens
  /\ unterminated' = Unterminated(data)
  /\ idx' = 0
  /\ pc' = "walk"
  /\ UNCHANGED <<argc, fi, path, counts, data, failed, report, outcomes>>

NextFile ==
  \/ LexFileFailure
  \/ LexFile
  \/ WalkOpen
  \/ WalkClose
  \/ WalkAtom
  \/ WalkEnd
  \/ Report

SpecFile == InitFile /\ [][NextFile]_vars

\* ---------------------------------------------------------- lexer runs
\* The script run on one readable file whose text mixes quote directives,
\* the three quote characters, backslashes and upper case.
InitLex ==
  /\ argc = 1
  /\ data \in LexTexts
  /\ Start

SpecLex == InitLex /\ [][NextFile]_vars

\* ================================================================== claims
Failures ==
  {"ReadFailure", "LexFailure", "NoNextToken", "EmptyGroup", "Underflow",
   "AtomOutsideGroup", "Unbalanced"}

\* a step that ends the walk of a file
FileEnds == pc = "walk" /\ pc' = "loop"

\* what c holds beyond c0
Delta(c, c0) ==
  LET at0(k) == IF k \in DOMAIN c0 THEN c0[k] ELSE 0
  IN [k \in {j \in DOMAIN c : c[j] # at0(j)} |-> c[k] - at0(k)]

\* every ')' has an earlier '(' of its own and no '(' is left open
Balanced(toks) ==
  /\ NumOf(toks, LP, 1, Len(toks)) = NumOf(toks, RP, 1, Len(toks))
  /\ \A k \in 1..Len(toks) : NumOf(toks, LP, 1, k) >= NumOf(toks, RP, 1, k)

\* C1: a file whose processing fails contributes nothing to the accumulator:
\* once it has failed, counts is what it was when the file started.
C1_FailedFileContributesNothing ==
  (pc \in {"loop", "done"} /\ outcome \in Failures) => counts = counts0

\* C2: the path stack is empty whenever the loop is between two files, that is
\* when a file ends and when the next one starts, also after a failed file.
C2_PathEmptyBetweenFiles ==
  pc = "loop" => path = <<>>

\* C3: a file ends the same way and adds the same counts whatever files came
\* before it: as it does when it is the first file of a run.
C3_FileIndependentOfEarlierFiles ==
  [][FileEnds =>
       LET alone == Walk(tokens, 0, <<>>, EmptyDict)
       IN /\ (outcome' = "ok") = (alone.exc = "ok")
          /\ Delta(counts', counts0) = alone.counts]_vars

\* C4: a file that starts with the path empty and whose tokens are not
\* balanced in '(' and ')' never ends successfully.
C4_UnbalancedFileFails ==
  [][(FileEnds /\ path0 = <<>> /\ outcome' = "ok") => Balanced(tokens)]_vars

\* C5: while every file so far succeeded, a file that ends successfully has
\* added to each key exactly the number of groups and keyword atoms its tokens
\* hold at that nesting path; so the final counts of a run without failures
\* are the occurrences summed over its files.
C5_CountsAreOccurrences ==
  [][(FileEnds /\ failed' = <<>>) =>
       counts' = Merge(counts0, Occurrences(tokens))]_vars

\* ------------------------------------------------------------------- C6
\* position i of text n lies in a quoted region (delimiters included)
QuotesBefore(n, q, i) == Cardinality({m \in 1..(i - 1) : n[m] = q})
InRegion(n, q, i) == n[i] = q \/ QuotesBefore(n, q, i) % 2 = 1
\* position i is part of an atom when quoted regions are never split
Material(n, q, i) == InRegion(n, q, i) \/ n[i] \notin Separators
ParensOutside(n, q, t) ==
  Cardinality({i \in 1..Len(n) : n[i] = t /\ ~InRegion(n, q, i)})
AtomsUnsplit(n, q) ==
  Cardinality({i \in 1..Len(n) :
                 Material(n, q, i) /\ (i = 1 \/ ~Material(n, q, i - 1))})
NumAtoms(toks) == Cardinality({j \in 1..Len(toks) : ~IsParen(toks[j])})

PcbNetOnce == (<<"pcb">> :> 1) @@ (<<"pcb", ".", "net">> :> 1)

\* C6: a closed quoted region is never split: the tokens of a file hold one
\* '(' or ')' for each paren outside the quoted regions and one atom for each
\* run of text in which every quoted region counts as a single piece; and
\* (pcb (net "foo bar")) succeeds with exactly pcb = 1 and pcb.net = 1.
C6_QuotedRegionNotSplit ==
  LET n == Normalize(data)
      q == quote(data)
  IN /\ pc = "walk" =>
          /\ NumOf(tokens, LP, 1, Len(tokens)) = ParensOutside(n, q, LP)
          /\ NumOf(tokens, RP, 1, Len(tokens)) = ParensOutside(n, q, RP)
          /\ NumAtoms(tokens) = AtomsUnsplit(n, q)
     /\ (pc = "done" /\ data \in {Scenario3, ScenarioQuotedParen}) =>
          (outcome = "ok" /\ counts = PcbNetOnce)

C6_Witness ==
  /\ pc = "done"
  /\ data = ScenarioQuotedParen
  /\ outcome = "ok"
  /\ counts = PcbNetOnce

\* ------------------------------------------------------------------- C7
\* C7: a file whose text has an unterminated quote never reaches the walker:
\* it fails in the lexer, is reported, and leaves counts and path as they were
\* when it started; the loop goes on, and the run ends only after every
\* argument has been gone through.
C7_UnterminatedQuoteFailsFile ==
  /\ unterminated =>
       /\ pc # "walk"
       /\ outcome = "LexFailure"
       /\ Len(outcomes) = fi
       /\ counts = counts0
       /\ path = path0
       /\ failed # <<>>
       /\ failed[Len(failed)] = fi
  /\ pc = "done" => (fi = argc /\ Len(outcomes) = argc)

\* the first file failed in the lexer, the second one was walked and counted
C7_Witness ==
  /\ pc = "loop"
  /\ fi = 2
  /\ outcomes = <<"LexFailure", "ok">>
  /\ failed = <<1>>
  /\ counts # EmptyDict

\* ------------------------------------------------------------------- C8
\* C8: when the walker reads '(' and the next token is ')' or is missing, the
\* file fails there and nothing is pushed or counted; (pcb ()()) fails at its
\* first empty pair, with only pcb pushed and counted.
C8_EmptyGroupFails ==
  [][/\ (/\ pc = "walk"
          /\ idx < Len(tokens)
          /\ tokens[idx + 1] = <<LP>>
          /\ (idx + 2 > Len(tokens) \/ tokens[idx + 2] = <<RP>>)) =>
            /\ pc' = "loop"
            /\ outcome' \in {"EmptyGroup", "NoNextToken"}
            /\ failed' = Append(failed, fi + 1)
            /\ path' = path
            /\ counts' = counts
     /\ (data = Scenario2 /\ pc' = "done") =>
            /\ outcome' = "EmptyGroup"
            /\ path' = << <<"pcb">> >>
            /\ counts' = (<<"pcb">> :> 1)]_vars

C8_Witness ==
  /\ pc = "done"
  /\ data = Scenario2
  /\ outcome = "EmptyGroup"
  /\ path = << <<"pcb">> >>

\* ------------------------------------------------------------------- C9
\* C9: when the path is empty and the walker reads ')' or an atom, the file
\* fails at that token and no count is recorded.
C9_EmptyPathTokenFails ==
  [][(/\ pc = "walk"
      /\ idx < Len(tokens)
      /\ tokens[idx + 1] # <<LP>>
      /\ path = <<>>) =>
        /\ pc' = "loop"
        /\ outcome' = IF tokens[idx + 1] = <<RP>> THEN "Underflow"
                      ELSE "AtomOutsideGroup"
        /\ failed' = Append(failed, fi + 1)
        /\ counts' = counts
        /\ path' = <<>>]_vars

C9_Witness ==
  /\ pc = "loop"
  /\ outcomes = <<"ok", "Underflow">>
  /\ counts = counts0
  /\ counts # EmptyDict

\* ------------------------------------------------------------------ C10
\* the segments of a key: its pieces between dots
RECURSIVE Segments(_, _)
Segments(key, cur) ==
  IF key = <<>> THEN {cur}
  ELSE IF Head(key) = "." THEN {cur} \cup Segments(Tail(key), <<>>)
  ELSE Segments(Tail(key), Append(cur, Head(key)))

RemoveAt(toks, j) == SubSeq(toks, 1, j - 1) \o SubSeq(toks, j + 1, Len(toks))

\* C10 as stated: every segment of every key is in the vocabulary, and
\* removing an atom outside the vocabulary from a file never changes the
\* counts the file leaves.
C10_OnlyKeywordsCount ==
  /\ \A k \in DOMAIN counts : Segments(k, <<>>) \subseteq keywords
  /\ (pc = "walk" /\ idx = 0) =>
       \A j \in 1..Len(tokens) :
         (~IsParen(tokens[j]) /\ ~valid_keyword(tokens[j])) =>
           Walk(RemoveAt(tokens, j), 0, path, counts).counts
             = Walk(tokens, 0, path, counts).counts

\* C10 amended: an atom outside the vocabulary that the walker reads as an
\* atom inside a group (not as the name after '(') is neither pushed nor
\* counted, and the walk ends as it would with that atom removed; an atom step
\* adds no key other than the path extended by a keyword.
C10_UnrecognizedAtomIgnored ==
  [][(/\ pc = "walk"
      /\ idx < Len(tokens)
      /\ ~IsParen(tokens[idx + 1])
      /\ path # <<>>) =>
        /\ DOMAIN counts' \ DOMAIN counts
             \subseteq {Join(Append(path, kw)) : kw \in keywords}
        /\ ~valid_keyword(tokens[idx + 1]) =>
             /\ path' = path
             /\ counts' = counts
             /\ pc' = "walk"
             /\ LET with == Walk(tokens, idx, path, counts)
                    without == Walk(RemoveAt(tokens, idx + 1), idx, path, counts)
                IN /\ with.exc = without.exc
                   /\ with.counts = without.counts
                   /\ with.path = without.path]_vars

C10_Witness ==
  /\ pc = "done"
  /\ data = <<LP, "pcb", SP, SQ, RP>>
  /\ outcome = "ok"
  /\ counts = (<<"pcb">> :> 1)

\* ------------------------------------------------------------------ C11
\* rep lists every entry of c exactly once
ListsEachOnce(rep, c) ==
  /\ Len(rep) = Cardinality(DOMAIN c)
  /\ \A k \in DOMAIN c :
       \E i \in 1..Len(rep) : rep[i] = [path |-> k, count |-> c[k]]

\* C11: the report lists every accumulator entry exactly once, in ascending
\* order of count and, among equal counts, of path string: of two consecutive
\* lines the first has the smaller count, or the same count and the smaller
\* path.
C11_ReportSortedByCount ==
  pc = "done" =>
    /\ ListsEachOnce(report, counts)
    /\ \A i \in 1..(Len(report) - 1) :
         \/ report[i].count < report[i + 1].count
         \/ /\ report[i].count = report[i + 1].count
            /\ StrLess(report[i].path, report[i + 1].path)

\* C11 amended: the report lists every accumulator entry exactly once, in
\* ascending order of path string: of two consecutive lines the first has
\* the smaller path, whatever the counts.
C11_ReportSortedByPath ==
  pc = "done" =>
    /\ ListsEachOnce(report, counts)
    /\ \A i \in 1..(Len(report) - 1) :
         StrLess(report[i].path, report[i + 1].path)

\* (net)(net)(pcb) is reported as net: 2, then pcb: 1
C11_Witness ==
  /\ pc = "done"
  /\ data = ScenarioReport
  /\ report = <<[path |-> <<"net">>, count |-> 2],
                [path |-> <<"pcb">>, count |-> 1]>>

\* ------------------------------------------------------------------ C12
\* a step that finishes a file, successfully or not
FileDone == fi' = fi + 1

\* C12: a file ends the same way (success or failure) and leaves the same
\* counts as its lowercased text does from the same path and counts, also
\* when the text holds a quote directive written in upper case.
C12_CaseRoundTrip ==
  [][FileDone =>
       LET low == Process(lower(data), path0', counts0')
       IN /\ (outcome' = "ok") = (low.exc = "ok")
          /\ counts' = low.counts]_vars

\* ------------------------------------------------------------------ C13
\* C13: the arguments are gone through one at a time in the order given, each
\* ends exactly once (reported as failed or not), no failure ends the run,
\* and the report is emitted exactly once, after the last file, in every run.
C13_EveryFileThenReportOnce ==
  /\ [][/\ pc # "done"
        /\ fi' \in {fi, fi + 1}
        /\ Len(outcomes') = fi'
        /\ FileDone =>
             /\ pc' = "loop"
             /\ failed' = IF outcome' = "ok" THEN failed ELSE Append(failed, fi')
        /\ (pc' = "done") =>
             /\ fi = argc
             /\ fi' = argc
             /\ report' = print_counts(counts)]_vars
  /\ <>[](pc = "done" /\ fi = argc /\ Len(outcomes) = argc)

\* both files failed, in different ways, and the report came after them
C13_Witness ==
  /\ pc = "done"
  /\ outcomes = <<"Unbalanced", "LexFailure">>
  /\ failed = <<1, 2>>
  /\ report = print_counts(counts)
  /\ report # <<>>

\* ------------------------------------------------------------------ C14
\* text n from position i on without the blanks outside its quoted regions
RECURSIVE RegionsVerbatim(_, _, _)
RegionsVerbatim(n, q, i) ==
  IF i > Len(n) THEN <<>>
  ELSE (IF InRegion(n, q, i) \/ n[i] \notin Whitespace THEN <<n[i]>> ELSE <<>>)
         \o RegionsVerbatim(n, q, i + 1)

\* the same with every quoted region reduced to its two quote characters
RECURSIVE RegionsCollapsed(_, _, _)
RegionsCollapsed(n, q, i) ==
  IF i > Len(n) THEN <<>>
  ELSE (IF n[i] = q \/ (~InRegion(n, q, i) /\ n[i] \notin Whitespace)
        THEN <<n[i]>> ELSE <<>>)
         \o RegionsCollapsed(n, q, i + 1)

\* C14 as stated: every closed quoted region reaches the tokens verbatim, its
\* two quotes and everything between them: the tokens of a file, put end to
\* end, are its normalized text without the blanks outside quoted regions.
C14_RegionCopiedVerbatim ==
  pc = "walk" =>
    Concat(tokens) = RegionsVerbatim(Normalize(data), quote(data), 1)

\* C14 amended: of every closed quoted region only the two quote characters
\* reach the tokens, the content between them is dropped: the tokens of a
\* file, put end to end, are its normalized text without the content of the
\* quoted regions and without the blanks outside them.
C14_RegionCollapsedToQuotes ==
  pc = "walk" =>
    Concat(tokens) = RegionsCollapsed(Normalize(data), quote(data), 1)

\* "PCB" is tokenized as the single atom ""
C14_Witness ==
  /\ pc = "walk"
  /\ data = <<DQ, "PCB", DQ>>
  /\ tokens = << <<DQ, DQ>> >>

\* ------------------------------------------------------------------ C15
\* c1 is c with the entry of key k raised by one (created at 1 when absent)
\* and nothing else changed
RaisedByOne(c1, c, k) ==
  /\ DOMAIN c1 = DOMAIN c \cup {k}
  /\ c1[k] = (IF k \in DOMAIN c THEN c[k] ELSE 0) + 1
  /\ \A j \in DOMAIN c \ {k} : c1[j] = c[j]

\* C15: when the walker reads '(' followed by a token nt other than ')', it
\* consumes both, the path becomes the old path with nt appended, the entry
\* of the dot-joined new path is raised by exactly one and no other entry
\* changes, whether nt is in the vocabulary or not.
C15_OpenStepPushesAndCounts ==
  [][(/\ pc = "walk"
      /\ idx + 2 <= Len(tokens)
      /\ tokens[idx + 1] = <<LP>>
      /\ tokens[idx + 2] # <<RP>>) =>
        /\ pc' = "walk"
        /\ idx' = idx + 2
        /\ path' = Append(path, tokens[idx + 2])
        /\ RaisedByOne(counts', counts, Join(path'))
        /\ UNCHANGED <<tokens, failed, outcomes, fi>>]_vars

\* (')(' : the second group named ' raises the entry the first one created
C15_Witness ==
  /\ pc = "walk"
  /\ data = <<LP, SQ, RP, LP, SQ>>
  /\ idx = 5
  /\ path = << <<SQ>> >>
  /\ ~valid_keyword(tokens[5])
  /\ counts = (<<SQ>> :> 2)

\* ------------------------------------------------------------------ C16
\* C16: an atom read while the path is not empty leaves the path as it was;
\* an atom of the vocabulary raises the entry of the dot-joined path extended
\* by the atom by exactly one and changes no other entry, any other atom
\* leaves the accumulator unchanged.
C16_AtomStepKeepsPath ==
  [][(/\ pc = "walk"
      /\ idx < Len(tokens)
      /\ ~IsParen(tokens[idx + 1])
      /\ path # <<>>) =>
        /\ pc' = "walk"
        /\ idx' = idx + 1
        /\ path' = path
        /\ IF valid_keyword(tokens[idx + 1])
           THEN RaisedByOne(counts', counts, Join(Append(path, tokens[idx + 1])))
           ELSE counts' = counts]_vars

\* (pcb pcb) : the atom pcb is read and counted under pcb, the path kept
C16_Witness ==
  /\ pc = "walk"
  /\ data = <<LP, "pcb", SP, "pcb", RP>>
  /\ idx = 3
  /\ path = << <<"pcb">> >>
  /\ counts = (<<"pcb">> :> 1) @@ (<<"pcb", ".", "pcb">> :> 1)

\* ------------------------------------------------------------------ C17
\* a walker step that records a path: a group is opened or a keyword atom is
\* read inside a group, and the step does not fail
RecordingStep ==
  /\ pc = "walk"
  /\ pc' = "walk"
  /\ idx < Len(tokens)
  /\ \/ tokens[idx + 1] = <<LP>>
     \/ ~IsParen(tokens[idx + 1]) /\ valid_keyword(tokens[idx + 1])

\* C17: all through a run, over file ends and failed files, every key of the
\* accumulator has a count of at least 1, a key appears with count 1, a
\* recording step raises exactly one key by exactly 1, and no other step
\* changes the accumulator: no key is ever removed or decreased.
C17_CountsOnlyGrowByOne ==
  /\ [](\A k \in DOMAIN counts : counts[k] >= 1)
  /\ [][/\ DOMAIN counts \subseteq DOMAIN counts'
        /\ \A k \in DOMAIN counts : counts'[k] >= counts[k]
        /\ \A k \in DOMAIN counts' \ DOMAIN counts : counts'[k] = 1
        /\ IF RecordingStep
           THEN \E k \in DOMAIN counts' : RaisedByOne(counts', counts, k)
           ELSE counts' = counts]_vars

\* the first file failed after counting pcb, the second one raised pcb to 2
C17_Witness ==
  /\ pc = "walk"
  /\ fi = 1
  /\ outcomes = <<"Unbalanced">>
  /\ counts0 = (<<"pcb">> :> 1)
  /\ counts = (<<"pcb">> :> 2)

\* ------------------------------------------------------------------ C18
\* group-open steps minus close steps among the walker steps that took the
\* walk of toks from idx = i to idx = upto
RECURSIVE OpensMinusCloses(_, _, _)
OpensMinusCloses(toks, i, upto) ==
  IF i >= upto THEN 0
  ELSE IF toks[i + 1] = <<LP>> THEN 1 + OpensMinusCloses(toks, i + 2, upto)
  ELSE IF toks[i + 1] = <<RP>> THEN OpensMinusCloses(toks, i + 1, upto) - 1
  ELSE OpensMinusCloses(toks, i + 1, upto)

\* C18: between two walker steps the length of the path is the number of
\* group-open steps minus the number of close steps taken so far in the
\* current file, which is never negative; the push of a keyword atom is
\* undone within its step.
C18_PathLengthIsOpenGroups ==
  pc = "walk" =>
    /\ OpensMinusCloses(tokens, 0, idx) >= 0
    /\ Len(path) = OpensMinusCloses(tokens, 0, idx)

\* ------------------------------------------------------------------ C19
\* the text with the directives removed, every backslash followed by the
\* file's active quote character removed, and lowercased
NormalizeActive(txt) ==
  lower(replace(replace(replace(replace(txt, Marker(DQ)), Marker(SQ)),
                        Marker(DOLLAR)), <<BSL, quote(txt)>>))

\* C19: whichever of the three quote characters is active, every backslash
\* followed by it is removed before the quote pass, so an escaped active
\* quote neither opens nor closes a quoted region: a file is tokenized, or
\* fails in the lexer, as its text without those escapes is.
C19_EscapedActiveQuoteRemoved ==
  LET r == ScanQuotes(NormalizeActive(data), quote(data), 1, <<>>)
  IN /\ pc = "walk" => (r.ok /\ tokens = Tokens(r.text))
     /\ (pc \in {"loop", "done"} /\ outcome = "LexFailure") => ~r.ok

\* ------------------------------------------------------------------ C20
\* the quote character by precedence: $ over ' over ", " without directive
QuoteByPrecedence(txt) ==
  IF Contains(txt, Marker(DOLLAR)) THEN DOLLAR
  ELSE IF Contains(txt, Marker(SQ)) THEN SQ
  ELSE DQ

\* C20: the quote character of a file is " when its text holds no directive,
\* the character a directive names when there is one, and with directives for
\* several characters $ before ' before ", wherever they stand in the text:
\* the file is tokenized, or fails in the lexer, with that character
\* delimiting its quoted regions.
C20_QuoteCharacterSelection ==
  LET r == ScanQuotes(Normalize(data), QuoteByPrecedence(data), 1, <<>>)
  IN /\ pc = "walk" => (r.ok /\ tokens = Tokens(r.text))
     /\ (pc \in {"loop", "done"} /\ outcome = "LexFailure") => ~r.ok
     /\ (pc \in {"loop", "done"} /\ outcome # "LexFailure" /\ fi = 1) => r.ok

\* directives for " and ' and then a lone " : ' is the quote character, the
\* double quote is an atom
C20_Witness ==
  /\ pc = "walk"
  /\ data = Marker(DQ) \o Marker(SQ) \o <<DQ>>
  /\ tokens = << <<DQ>> >>

====
